---- MODULE Spec2Model ----
(***************************************************************************)
(* Model of AP/main/main.c: app_main configures pad BLINK_GPIO and then    *)
(* blinks it forever.  One action per statement of app_main, plus the      *)
(* FreeRTOS tick that ends a vTaskDelay.  The GPIO driver is modelled by   *)
(* its effect on a small pad register file.                               *)
(***************************************************************************)
EXTENDS Integers, Sequences, FiniteSets, TLC

(* ---------- program constants ---------- *)
GPIO_NUM_2 == 2
BLINK_GPIO == GPIO_NUM_2
TAG == "blink"

GPIO_MODE_OUTPUT == "GPIO_MODE_OUTPUT"

(* FreeRTOS tick rate (ESP-IDF default CONFIG_FREERTOS_HZ) and its macros *)
configTICK_RATE_HZ == 100
portTICK_PERIOD_MS == 1000 \div configTICK_RATE_HZ
pdMS_TO_TICKS(xTimeInMs) == (xTimeInMs * configTICK_RATE_HZ) \div 1000

(* ---------- bounds ---------- *)
MaxEvents == 14

(* ---------- platform vocabulary ---------- *)
OtherPins == {BLINK_GPIO + 1}
Pins == {BLINK_GPIO} \cup OtherPins
GpioModes == {"GPIO_MODE_DISABLE", "GPIO_MODE_INPUT", GPIO_MODE_OUTPUT}
Levels == {0, 1}
ESP_OK == "ESP_OK"
esp_err_t == {ESP_OK, "ESP_FAIL", "ESP_ERR_INVALID_ARG"}
NoPin == -1

VARIABLES
    pc,         \* line of app_main about to be executed (or blocked in)
    blocked,    \* TRUE while the task is suspended inside vTaskDelay
    delayLeft,  \* ticks left before the blocked task is made ready
    pins,       \* pad register file: pin -> [mode, level]
    ret,        \* value returned by the last driver call (discarded by app_main)
    faults,     \* whether the driver may report an error
    evts,       \* the first MaxEvents calls app_main made, in order
    heldMs,     \* ms elapsed since the last gpio_set_level call
    cycleMs,    \* ms elapsed since the last gpio_set_level(.., 0) call
    changed,    \* whether the last gpio_set_level changed the output level
    failed,     \* whether some driver call has returned an error
    tampered    \* whether something other than app_main drove a pad

vars == <<pc, blocked, delayLeft, pins, ret, faults, evts, heldMs, cycleMs,
          changed, failed, tampered>>

(* ---------- arguments of the calls ---------- *)
\* line 16
ConfigMode_input == "GPIO_MODE_INPUT"
ConfigMode == GPIO_MODE_OUTPUT

\* line 23
OnLevel_toggle == 1 - pins[BLINK_GPIO].level
OnLevel_low == 1 - 1
OnLevel == 1

\* line 19
OffLevel_high == OnLevel
OffLevel == 0

\* lines 20 and 24
OffMsg == "LED OFF"
OnMsg_off == OffMsg
OnMsg == "LED ON"

\* lines 21 and 25
DelayMs_short == 5 * 50
DelayMs == 500

(* ---------- driver effects ---------- *)
\* gpio_reset_pin: pad back to its default function, input and output disabled;
\* the output latch is not written
gpio_reset_pin(hw, p, r) ==
    IF r = ESP_OK THEN [hw EXCEPT ![p].mode = "GPIO_MODE_DISABLE"] ELSE hw

gpio_set_direction(hw, p, mode, r) ==
    IF r = ESP_OK THEN [hw EXCEPT ![p].mode = mode] ELSE hw

gpio_set_level(hw, p, lvl, r) ==
    IF r = ESP_OK THEN [hw EXCEPT ![p].level = lvl] ELSE hw

\* results the driver can hand back
DriverResults == IF faults THEN esp_err_t ELSE {ESP_OK}

(* ---------- control flow of app_main ---------- *)
\* the return value of a driver call is dropped: control goes on regardless
AfterCall_checked(r, next) == IF r = ESP_OK THEN next ELSE "abort"
AfterCall(r, next) == next

\* while (1): the statement after the second delay is the first of the body
LoopBack_exit == "return"
LoopBack == "L19"

\* pin each call is made on
ResetTarget == BLINK_GPIO
DirectionTarget == BLINK_GPIO
OffTarget == BLINK_GPIO
OnTarget_other == BLINK_GPIO + 1
OnTarget == BLINK_GPIO

Event(call, pin, arg) == [call |-> call, pin |-> pin, arg |-> arg]
Record(e) == IF Len(evts) < MaxEvents THEN Append(evts, e) ELSE evts

(* ---------- actions: one per statement ---------- *)
\* line 15
ResetPin ==
    /\ pc = "L15"
    /\ \E r \in DriverResults :
        /\ pins' = gpio_reset_pin(pins, ResetTarget, r)
        /\ ret' = r
        /\ failed' = (failed \/ r # ESP_OK)
        /\ pc' = AfterCall(r, "L16")
    /\ evts' = Record(Event("gpio_reset_pin", ResetTarget, "-"))
    /\ UNCHANGED <<blocked, delayLeft, faults, heldMs, cycleMs, changed, tampered>>

\* line 16
SetDirection ==
    /\ pc = "L16"
    /\ \E r \in DriverResults :
        /\ pins' = gpio_set_direction(pins, DirectionTarget, ConfigMode, r)
        /\ ret' = r
        /\ failed' = (failed \/ r # ESP_OK)
        /\ pc' = AfterCall(r, "L19")
    /\ evts' = Record(Event("gpio_set_direction", DirectionTarget, ConfigMode))
    /\ UNCHANGED <<blocked, delayLeft, faults, heldMs, cycleMs, changed, tampered>>

\* line 19
SetLevelOff ==
    /\ pc = "L19"
    /\ \E r \in DriverResults :
        /\ pins' = gpio_set_level(pins, OffTarget, OffLevel, r)
        /\ ret' = r
        /\ failed' = (failed \/ r # ESP_OK)
        /\ pc' = AfterCall(r, "L20")
    /\ changed' = (pins'[BLINK_GPIO].level # pins[BLINK_GPIO].level)
    /\ evts' = Record(Event("gpio_set_level", OffTarget, OffLevel))
    /\ heldMs' = 0
    /\ cycleMs' = 0
    /\ UNCHANGED <<blocked, delayLeft, faults, tampered>>

\* line 20
LogOff ==
    /\ pc = "L20"
    /\ evts' = Record(Event("ESP_LOGI", NoPin, OffMsg))
    /\ pc' = "L21"
    /\ UNCHANGED <<blocked, delayLeft, pins, ret, faults, heldMs, cycleMs,
                   changed, failed, tampered>>

\* line 21: the call suspends the task
DelayOff ==
    /\ pc = "L21"
    /\ ~blocked
    /\ blocked' = TRUE
    /\ delayLeft' = pdMS_TO_TICKS(DelayMs)
    /\ evts' = Record(Event("vTaskDelay", NoPin, pdMS_TO_TICKS(DelayMs)))
    /\ UNCHANGED <<pc, pins, ret, faults, heldMs, cycleMs, changed, failed, tampered>>

\* line 23
SetLevelOn ==
    /\ pc = "L23"
    /\ \E r \in DriverResults :
        /\ pins' = gpio_set_level(pins, OnTarget, OnLevel, r)
        /\ ret' = r
        /\ failed' = (failed \/ r # ESP_OK)
        /\ pc' = AfterCall(r, "L24")
    /\ changed' = (pins'[BLINK_GPIO].level # pins[BLINK_GPIO].level)
    /\ evts' = Record(Event("gpio_set_level", OnTarget, OnLevel))
    /\ heldMs' = 0
    /\ UNCHANGED <<blocked, delayLeft, faults, cycleMs, tampered>>

\* line 24
LogOn ==
    /\ pc = "L24"
    /\ evts' = Record(Event("ESP_LOGI", NoPin, OnMsg))
    /\ pc' = "L25"
    /\ UNCHANGED <<blocked, delayLeft, pins, ret, faults, heldMs, cycleMs,
                   changed, failed, tampered>>

\* line 25: the call suspends the task
DelayOn ==
    /\ pc = "L25"
    /\ ~blocked
    /\ blocked' = TRUE
    /\ delayLeft' = pdMS_TO_TICKS(DelayMs)
    /\ evts' = Record(Event("vTaskDelay", NoPin, pdMS_TO_TICKS(DelayMs)))
    /\ UNCHANGED <<pc, pins, ret, faults, heldMs, cycleMs, changed, failed, tampered>>

\* statement reached when the delay entered at line l returns
AfterDelay_skip(l) == LoopBack
AfterDelay(l) == IF l = "L21" THEN "L23" ELSE LoopBack

\* tick interrupt while the task sleeps: the last tick of the delay makes the
\* task ready and vTaskDelay returns
Tick ==
    /\ blocked
    /\ heldMs' = heldMs + portTICK_PERIOD_MS
    /\ cycleMs' = cycleMs + portTICK_PERIOD_MS
    /\ IF delayLeft > 1
         THEN /\ delayLeft' = delayLeft - 1
              /\ UNCHANGED <<pc, blocked>>
         ELSE /\ delayLeft' = 0
              /\ blocked' = FALSE
              /\ pc' = AfterDelay(pc)
    /\ UNCHANGED <<pins, ret, faults, evts, changed, failed, tampered>>

\* something other than app_main changes the level of a pad
ExternalDrive ==
    /\ \E p \in Pins, v \in Levels :
        /\ pins[p].level # v
        /\ pins' = [pins EXCEPT ![p].level = v]
    /\ tampered' = TRUE
    /\ UNCHANGED <<pc, blocked, delayLeft, ret, faults, evts, heldMs, cycleMs,
                   changed, failed>>

(* ---------- specifications ---------- *)
InitCommon ==
    /\ pc = "L15"
    /\ blocked = FALSE
    /\ delayLeft = 0
    /\ pins \in [Pins -> [mode : GpioModes, level : Levels]]
    /\ ret = ESP_OK
    /\ evts = <<>>
    /\ heldMs = 0
    /\ cycleMs = 0
    /\ changed = FALSE
    /\ failed = FALSE
    /\ tampered = FALSE

\* the driver as it behaves for a valid output pad: every call succeeds
Init == InitCommon /\ faults = FALSE

\* a driver that may fail, and pads that may be driven from outside
InitAdverse == InitCommon /\ faults = TRUE

Program ==
    \/ ResetPin
    \/ SetDirection
    \/ SetLevelOff
    \/ LogOff
    \/ DelayOff
    \/ SetLevelOn
    \/ LogOn
    \/ DelayOn

Next == Program \/ Tick

NextAdverse == Program \/ Tick \/ ExternalDrive

Spec == Init /\ [][Next]_vars

SpecAdverse == InitAdverse /\ [][NextAdverse]_vars

\* the task is the only one and the tick interrupt keeps firing
SpecLive == Init /\ [][Next]_vars /\ WF_vars(Next)

(* ---------- vocabulary of the properties ---------- *)
IsSet(e) == e.call = "gpio_set_level"
IsLog(e) == e.call = "ESP_LOGI"
IsDelay(e) == e.call = "vTaskDelay"
IsSetOff(e) == IsSet(e) /\ e.arg = 0
Writes == SelectSeq(evts, IsSet)
Logs == SelectSeq(evts, IsLog)
Idx == 1..Len(evts)
LoopLines == {"L19", "L20", "L21", "L23", "L24", "L25"}
AppMainLines == {"L15", "L16"} \cup LoopLines
\* evts holds every call made so far (nothing was dropped at the bound)
Recording == Len(evts) < MaxEvents

(* C1: the n-th value written by gpio_set_level is 0 for odd n and 1 for   *)
(* even n, so consecutive writes never carry the same level.              *)
C1_Alternates ==
    /\ \A n \in 1..Len(Writes) : Writes[n].arg = (IF n % 2 = 1 THEN 0 ELSE 1)
    /\ \A n \in 1..(Len(Writes) - 1) : Writes[n].arg # Writes[n + 1].arg

C1_Witness == Len(Writes) >= 4 /\ pc = "L24"

(* C2: gpio_reset_pin and then gpio_set_direction(GPIO_MODE_OUTPUT) are    *)
(* the first two calls, both returned before any level write or log, and   *)
(* whenever a level has been written the pad is an output.                 *)
C2_ConfigFirst ==
    /\ \A i \in Idx : (IsSet(evts[i]) \/ IsLog(evts[i])) =>
          /\ i > 2
          /\ evts[1].call = "gpio_reset_pin"
          /\ evts[2].call = "gpio_set_direction"
          /\ evts[2].arg = "GPIO_MODE_OUTPUT"
    /\ pc \in LoopLines => Len(evts) >= 2
    /\ Len(Writes) > 0 => pins[BLINK_GPIO].mode = "GPIO_MODE_OUTPUT"

C2_Witness == Len(Writes) = 1 /\ pc = "L20" /\ pins[BLINK_GPIO].mode = "GPIO_MODE_OUTPUT"

(* C3: each gpio_set_level is followed at once by exactly one log message  *)
(* naming the level just written, then by the delay; at every delay the    *)
(* number of messages equals the number of writes.                         *)
C3_EveryWriteLogged ==
    /\ \A i \in Idx : IsSet(evts[i]) /\ i < Len(evts) =>
          /\ IsLog(evts[i + 1])
          /\ evts[i + 1].arg = (IF evts[i].arg = 0 THEN "LED OFF" ELSE "LED ON")
    /\ \A i \in Idx : IsLog(evts[i]) =>
          /\ i > 1 /\ IsSet(evts[i - 1])
          /\ i < Len(evts) => IsDelay(evts[i + 1])
    /\ (pc \in {"L21", "L25"} /\ Recording) => Len(Logs) = Len(Writes)

C3_Witness ==
    /\ pc = "L25" /\ blocked /\ Recording
    /\ Len(Logs) = 2 /\ Logs[1].arg = "LED OFF" /\ Logs[2].arg = "LED ON"

(* C4: between two consecutive gpio_set_level calls exactly one            *)
(* vTaskDelay of 500 ms runs: a level is held 500 ms and an off/on cycle   *)
(* takes 1000 ms.                                                          *)
C4_HalfSecond ==
    /\ pc = "L23" => heldMs = 500
    /\ (pc = "L19" /\ Len(Writes) > 0) => (heldMs = 500 /\ cycleMs = 1000)
    /\ \A i \in Idx : \A j \in Idx :
         ( /\ i < j /\ IsSet(evts[i]) /\ IsSet(evts[j])
           /\ \A k \in (i + 1)..(j - 1) : ~IsSet(evts[k]) )
         => Cardinality({k \in (i + 1)..(j - 1) :
                IsDelay(evts[k]) /\ evts[k].arg * portTICK_PERIOD_MS = 500}) = 1

C4_Witness == pc = "L19" /\ Len(Writes) = 2 /\ cycleMs = 1000

(* C5: app_main never leaves the loop and never stops: some step is always *)
(* possible, and with delays that return the pin is written low infinitely *)
(* often and high infinitely often.                                        *)
C5_NeverExits ==
    /\ [](pc \in AppMainLines /\ ENABLED <<Next>>_vars)
    /\ []<>(pc = "L20" /\ pins[BLINK_GPIO].level = 0)
    /\ []<>(pc = "L24" /\ pins[BLINK_GPIO].level = 1)

C5_Witness == pc = "L20" /\ Len(evts) = MaxEvents /\ heldMs = 0

(* C6: whatever a driver call returns, app_main goes on to the same next   *)
(* statement; no error exit is reachable even when configuration failed.   *)
C6_Succ(l) ==
    CASE l = "L15" -> "L16" [] l = "L16" -> "L19" [] l = "L19" -> "L20"
      [] l = "L20" -> "L21" [] l = "L21" -> "L23" [] l = "L23" -> "L24"
      [] l = "L24" -> "L25" [] l = "L25" -> "L19" [] OTHER -> "none"

(* C6: the step app_main takes never depends on what a driver call        *)
(* returned, and pc never leaves the lines of app_main.                    *)
C6_Unchecked ==
    /\ [](pc \in AppMainLines)
    /\ [][pc' \in {pc, C6_Succ(pc)}]_vars

C6_Witness ==
    /\ failed /\ pins[BLINK_GPIO].mode # "GPIO_MODE_OUTPUT"
    /\ pc = "L24" /\ ret # ESP_OK /\ Len(Writes) >= 2

(* C7: the task is blocked only inside vTaskDelay; a write and its log run *)
(* with no suspension between them; each loop iteration has exactly two    *)
(* delays.                                                                 *)
C7_SuspensionPoints ==
    /\ blocked => pc \in {"L21", "L25"}
    /\ blocked <=> delayLeft > 0
    /\ \A i \in Idx : IsSet(evts[i]) /\ i < Len(evts) => ~IsDelay(evts[i + 1])
    /\ \A i \in Idx : \A j \in Idx :
         ( /\ i < j /\ IsSetOff(evts[i]) /\ IsSetOff(evts[j])
           /\ \A k \in (i + 1)..(j - 1) : ~IsSetOff(evts[k]) )
         => Cardinality({k \in (i + 1)..(j - 1) : IsDelay(evts[k])}) = 2

C7_Witness ==
    /\ blocked /\ pc = "L25"
    /\ Cardinality({i \in Idx : IsSetOff(evts[i])}) >= 2

(* C8: the calls app_main makes are fixed by its position alone: even when *)
(* the pad is driven from outside and driver calls fail, the i-th call is  *)
(* always the same one with the same arguments.                            *)
C8_Expected(i) ==
    IF i = 1 THEN Event("gpio_reset_pin", 2, "-")
    ELSE IF i = 2 THEN Event("gpio_set_direction", 2, "GPIO_MODE_OUTPUT")
    ELSE CASE (i - 3) % 6 = 0 -> Event("gpio_set_level", 2, 0)
           [] (i - 3) % 6 = 1 -> Event("ESP_LOGI", NoPin, "LED OFF")
           [] (i - 3) % 6 = 3 -> Event("gpio_set_level", 2, 1)
           [] (i - 3) % 6 = 4 -> Event("ESP_LOGI", NoPin, "LED ON")
           [] OTHER -> Event("vTaskDelay", NoPin, 50)

C8_PositionOnly == \A i \in Idx : evts[i] = C8_Expected(i)

C8_Witness ==
    /\ tampered /\ pc = "L24" /\ ret = ESP_OK /\ ~changed
    /\ Len(Writes) >= 2 /\ Recording

(* C9: gpio_reset_pin and gpio_set_direction are called once each, never   *)
(* inside the loop; every GPIO call is made on pad 2; a loop iteration     *)
(* changes neither the direction of the pad nor any other pad.             *)
C9_LoopFrame ==
    pc \in LoopLines =>
        /\ pc' \in LoopLines
        /\ pins'[BLINK_GPIO].mode = pins[BLINK_GPIO].mode
        /\ \A p \in OtherPins : pins'[p] = pins[p]

C9_Calls ==
    /\ \A i \in Idx : evts[i].call \in {"gpio_reset_pin", "gpio_set_direction"} <=> i <= 2
    /\ \A i \in Idx : evts[i].pin \in {2, NoPin}
    /\ \A i \in Idx : evts[i].pin = 2 <=>
           evts[i].call \in {"gpio_reset_pin", "gpio_set_direction", "gpio_set_level"}

(* C9: the two configuration calls happen once each and before the loop,   *)
(* every GPIO call targets pad 2, and loop steps leave the pad's direction *)
(* and every other pad as they were.                                       *)
C9_OnlyOnePin == []C9_Calls /\ [][C9_LoopFrame]_vars

C9_Witness == pc = "L19" /\ Len(evts) = MaxEvents /\ cycleMs = 1000

(* C10 as stated: every log message follows a gpio_set_level that changed  *)
(* the output level, the first "LED OFF" included.                         *)
C10_EveryLogIsTransition == pc \in {"L21", "L25"} => changed

(* C10 amended: every log message after the first follows a                *)
(* gpio_set_level that changed the output level.                           *)
C10_LaterLogsAreTransitions ==
    (pc \in {"L21", "L25"} /\ Len(Writes) >= 2) => changed

C10_Witness == pc = "L21" /\ Len(Writes) >= 3 /\ changed /\ blocked

====
